---- MODULE Spec2Model ----
(***************************************************************************)
(* A model of terms/convert.py, the vocabulary converter: the literal     *)
(* encoder (is_URI, make_ttl_literal), the term class (Term, as_ttl), the  *)
(* hierarchy parser (parse_terms) and the build run (main, read_meta,      *)
(* build_vocab, work_dir and the emitters).                                *)
(*                                                                         *)
(* Python strings are sequences of one-character strings.  None is the     *)
(* one-element sequence <<"None">>, which no Python string equals.         *)
(***************************************************************************)
EXTENDS Integers, Sequences, FiniteSets, TLC

VARIABLES
  \* make_ttl_literal called on one string
  lit_in, lit_out, lit_pc,
  \* parse_terms: the records read so far and the function's locals
  input, parent_stack, last_predicate, terms, parse_pc, parse_exc,
  \* the run: what the program is started with
  install_root_official,  \* --install-root is the official IVOA location
  cfg_readable,           \* the configuration file can be opened
  sections,               \* its sections, in file order, and their terms files
  rapper_installed,       \* the rapper executable is on the path
  \* the run: the state of the process
  rpc,                    \* where the program is
  meta, mi,               \* read_meta: the list built so far, the next section
  vi, run_terms,          \* main's loop index, build_vocab's terms
  cwd, wd_stack,          \* the current directory; the owd of each open work_dir
  dirs, files,            \* the output tree: directories, and files with content
  stderr, exit_status,    \* what was written to stderr; the exit status
  exc,                    \* the exception in flight or last raised
  failed_step,            \* the step that failed, "none" while none has
  trace                   \* the output steps done so far, in order

litVars == <<lit_in, lit_out, lit_pc>>
parseVars == <<input, parent_stack, last_predicate, terms, parse_pc, parse_exc>>
inputVars == <<install_root_official, cfg_readable, sections, rapper_installed>>
runVars == <<rpc, meta, mi, vi, run_terms, cwd, wd_stack, dirs, files, stderr,
             exit_status, exc, failed_step, trace>>
vars == <<litVars, parseVars, inputVars, runVars>>

-----------------------------------------------------------------------------
(* Bounds *)

MaxLen == 4
MaxRecs == 3
MaxLevel == 3
MaxVocabs == 2

-----------------------------------------------------------------------------
(* Strings *)

None == <<"None">>
DQUOTE == "\""
NEWLINE == "\n"
BACKSLASH == "\\"
Letters == {"a", "b"}
Digits == <<"0", "1", "2", "3", "4", "5", "6", "7", "8", "9">>

\* the characters of the strings make_ttl_literal is tried on; "é" is the
\* one character outside ASCII
Alphabet == {"a", ":", "/", "#", DQUOTE, NEWLINE, BACKSLASH, "é"}

RECURSIVE StringsOfLen(_)
StringsOfLen(n) ==
  IF n = 0 THEN {<<>>}
  ELSE {Append(s, c) : s \in StringsOfLen(n - 1), c \in Alphabet}

Strings == UNION {StringsOfLen(n) : n \in 0..MaxLen}

Contains(s, c) == \E i \in 1..Len(s) : s[i] = c

\* unicode.encode("utf-8"): ASCII characters are one byte each, "é" is the
\* two bytes C3 A9
RECURSIVE encode_utf8(_)
encode_utf8(s) ==
  IF s = <<>> THEN <<>>
  ELSE (IF s[1] = "é" THEN <<"\\xc3", "\\xa9">> ELSE <<s[1]>>)
         \o encode_utf8(Tail(s))

\* a replace that escapes nothing
ReplaceNothing(s) == s

\* str.replace('"', '\\"')
RECURSIVE replace_quotes(_)
replace_quotes(s) ==
  IF s = <<>> THEN <<>>
  ELSE (IF s[1] = DQUOTE THEN <<BACKSLASH, DQUOTE>> ELSE <<s[1]>>)
         \o replace_quotes(Tail(s))

\* re.match("[a-zA-Z]+://|#", s): a match anchored at the start of s
is_URI(s) ==
  \/ \E n \in 1..Len(s) :
       /\ \A i \in 1..n : s[i] \in Letters
       /\ Len(s) >= n + 3
       /\ s[n + 1] = ":" /\ s[n + 2] = "/" /\ s[n + 3] = "/"
  \/ Len(s) >= 1 /\ s[1] = "#"

make_ttl_literal(ob) ==
  IF is_URI(ob) THEN <<"<">> \o ob \o <<">">>
  ELSE IF Contains(ob, NEWLINE)
    THEN <<DQUOTE, DQUOTE, DQUOTE>> \o encode_utf8(ob)
           \o <<DQUOTE, DQUOTE, DQUOTE>>
    ELSE <<DQUOTE>> \o replace_quotes(encode_utf8(ob)) \o <<DQUOTE>>

-----------------------------------------------------------------------------
(* The term class *)

Term(predicate, label, description, parent, synonym) ==
  [predicate |-> predicate, label |-> label, description |-> description,
   parent |-> parent, synonym |-> synonym]

\* Python truth of an attribute that is None or a string
Truthy(x) == x # None /\ x # <<>>

\* Term.as_ttl: the filled template lines, in order, before they are joined
\* with ";\n  " and closed with "."; the keywords of the template are one
\* element each
as_ttl(self) ==
  <<  <<"<", "#">> \o self.predicate \o <<">", " a rdf:Property">>,
      <<"rdfs:label ">> \o make_ttl_literal(self.label),
      <<"rdfs:comment ">> \o make_ttl_literal(self.description) >>
  \o (IF Truthy(self.parent)
        THEN << <<"rdfs:subPropertyOf ">> \o make_ttl_literal(self.parent) >>
        ELSE <<>>)
  \o (IF Truthy(self.synonym)
        THEN << <<"owl:equivalentProperty ">>
                  \o make_ttl_literal(self.synonym),
                <<"a owl:DeprecatedProperty">> >>
        ELSE <<>>)

-----------------------------------------------------------------------------
(* parse_terms *)

\* int(s) for the level column: a non-empty run of decimal digits
IsDigit(c) == \E d \in 1..10 : Digits[d] = c
DigitVal(c) == (CHOOSE d \in 1..10 : Digits[d] = c) - 1
IsIntLiteral(s) == s # None /\ Len(s) >= 1 /\ \A i \in 1..Len(s) : IsDigit(s[i])
RECURSIVE int(_)
int(s) ==
  IF Len(s) = 1 THEN DigitVal(s[1])
  ELSE 10 * int(SubSeq(s, 1, Len(s) - 1)) + DigitVal(s[Len(s)])

\* rec = [(s or None) for s in rec]
NoneIfEmpty(rec) == [i \in 1..Len(rec) |-> IF rec[i] = <<>> THEN None ELSE rec[i]]

\* a push that leaves out a predicate that is still None
PushParentSkipNone(stack, level, last) ==
  IF level - 1 > Len(stack) /\ last # None THEN Append(stack, last) ELSE stack

\* if hierarchy_level-1>len(parent_stack): parent_stack.append(last_predicate)
PushParent(stack, level, last) ==
  IF level - 1 > Len(stack) THEN Append(stack, last) ELSE stack

\* a loop that also pops at equal depth
RECURSIVE PopParentsInclusive(_, _)
PopParentsInclusive(stack, level) ==
  IF stack # <<>> /\ level - 1 <= Len(stack)
    THEN PopParentsInclusive(SubSeq(stack, 1, Len(stack) - 1), level)
    ELSE stack

\* while hierarchy_level-1<len(parent_stack): parent_stack.pop()
\* (called with level >= 1; a smaller level pops the empty list)
RECURSIVE PopParents(_, _)
PopParents(stack, level) ==
  IF level - 1 < Len(stack)
    THEN PopParents(SubSeq(stack, 1, Len(stack) - 1), level)
    ELSE stack

\* last_predicate = rec[0]; if not is_URI(...): last_predicate = "#"+...
NormalisePredicate(p) == IF ~is_URI(p) THEN <<"#">> \o p ELSE p

\* if parent_stack: parent = parent_stack[-1] else: parent = None
ParentOf(stack) == IF stack # <<>> THEN stack[Len(stack)] ELSE None

\* synonym = rec[4]; if not is_URI(synonym): synonym = "#"+synonym
NormaliseSynonym(s) == IF ~is_URI(s) THEN <<"#">> \o s ELSE s

\* str.decode("utf-8") of the label and description columns: the bytes C3 A9
\* are the one character "é", an ASCII byte is itself
RECURSIVE decode_utf8(_)
decode_utf8(s) ==
  IF s = <<>> THEN <<>>
  ELSE IF Len(s) >= 2 /\ s[1] = "\\xc3" /\ s[2] = "\\xa9"
    THEN <<"é">> \o decode_utf8(SubSeq(s, 3, Len(s)))
    ELSE <<s[1]>> \o decode_utf8(Tail(s))

\* the predicate the constructed Term is given
TermPredicate(rec) == rec[1]

\* One pass of the loop body over the raw record raw, from the locals st.
\* exc is "none" or the exception that leaves the function.
LoopBody(st, raw) ==
  LET rec == NoneIfEmpty(raw)
      raised(e) == [st EXCEPT !.exc = e]
  IN
  IF rec[2] = None THEN raised("TypeError")
  ELSE IF ~IsIntLiteral(rec[2]) THEN raised("ValueError")
  ELSE
    LET hierarchy_level == int(rec[2])
        pushed == PushParent(st.parent_stack, hierarchy_level,
                             st.last_predicate)
    IN
    IF hierarchy_level - 1 < 0 THEN raised("IndexError")
    ELSE
      LET stack == PopParents(pushed, hierarchy_level)
          parent == ParentOf(stack)
      IN
      IF rec[1] = None THEN raised("TypeError")
      ELSE IF Len(rec) >= 5 /\ rec[5] = None THEN raised("TypeError")
      ELSE IF rec[3] = None \/ rec[4] = None THEN raised("AttributeError")
      ELSE
        LET synonym == IF Len(rec) < 5 THEN None
                       ELSE NormaliseSynonym(rec[5])
        IN
        [exc |-> "none",
         parent_stack |-> stack,
         last_predicate |-> NormalisePredicate(rec[1]),
         terms |-> Append(st.terms,
                     Term(TermPredicate(rec), decode_utf8(rec[3]),
                          decode_utf8(rec[4]), parent, synonym))]

ParseStart ==
  [exc |-> "none", parent_stack |-> <<>>, last_predicate |-> None,
   terms |-> <<>>]

\* parse_terms on a whole file: the terms, or the exception
RECURSIVE ParseFrom(_, _)
ParseFrom(st, recs) ==
  IF recs = <<>> \/ st.exc # "none" THEN st
  ELSE ParseFrom(LoopBody(st, Head(recs)), Tail(recs))

parse_terms(recs) == ParseFrom(ParseStart, recs)

-----------------------------------------------------------------------------
(* The records a terms file is made of *)

PredicateColumns == { <<"a">>, <<"#", "b">> }
PositiveLevelColumns == { <<Digits[n + 1]>> : n \in 1..MaxLevel }
LevelColumns == PositiveLevelColumns \cup { <<"0">>, <<"x">> }
LabelColumn == <<"L">>
DescriptionColumn == <<"D", "\\xc3", "\\xa9">>
SynonymColumns == { <<>>, <<"b">>, <<"a", ":", "/", "/", "b">> }

\* a record that ends the parse (a level that is no positive integer) comes
\* in one shape only
Records ==
  { <<p, l, LabelColumn, DescriptionColumn>> :
      p \in PredicateColumns, l \in PositiveLevelColumns }
  \cup
  { <<p, l, LabelColumn, DescriptionColumn, s>> :
      p \in PredicateColumns, l \in PositiveLevelColumns, s \in SynonymColumns }
  \cup
  { << <<"a">>, l, LabelColumn, DescriptionColumn >> :
      l \in LevelColumns \ PositiveLevelColumns }

-----------------------------------------------------------------------------
(* The run: configuration, terms files and output tree *)

MANDATORY_KEYS == {"baseuri", "timestamp", "title", "description", "authors"}

\* the section names, in the order the sections stand in the file
VocabNames == <<"va", "vb", "vc", "vd">>
Timestamp == "2020-01-01"

\* the key sets a section may come with
KeySets ==
  { MANDATORY_KEYS,
    MANDATORY_KEYS \ {"authors"},
    MANDATORY_KEYS \ {"timestamp", "title"} }

\* the terms files a section may come with
ExampleTerms ==
  << << <<"a">>, <<"1">>, LabelColumn, DescriptionColumn >>,
     << <<"b">>, <<"2">>, LabelColumn, DescriptionColumn, <<"a">> >>,
     << <<"#", "b">>, <<"1">>, LabelColumn, DescriptionColumn >> >>
DeepTerms ==
  << << <<"a", ":", "/", "/", "b">>, <<"1">>, LabelColumn, DescriptionColumn >>,
     << <<"a">>, <<"2">>, LabelColumn, DescriptionColumn >>,
     << <<"b">>, <<"3">>, LabelColumn, DescriptionColumn,
        <<"a", ":", "/", "/", "b">> >> >>
BadLevelTerms ==
  << << <<"a">>, <<"1">>, LabelColumn, DescriptionColumn >>,
     << <<"b">>, <<"x">>, LabelColumn, DescriptionColumn >> >>
EmptySynonymTerms ==
  << << <<"a">>, <<"1">>, LabelColumn, DescriptionColumn, <<>> >> >>
TermsFiles == {"example", "deep", "bad_level", "empty_synonym"}
TermsFileContent(f) ==
  CASE f = "example" -> ExampleTerms
    [] f = "deep" -> DeepTerms
    [] f = "bad_level" -> BadLevelTerms
    [] f = "empty_synonym" -> EmptySynonymTerms

SectionChoices == KeySets \X BOOLEAN \X TermsFiles

Configurations ==
  UNION { { [i \in 1..n |->
               [name |-> VocabNames[i], keys |-> f[i][1],
                terms_readable |-> f[i][2], terms_file |-> f[i][3]]] :
            f \in [1..n -> SectionChoices] } :
          n \in 0..MaxVocabs }

\* paths are sequences of components; a component is <<name>> or
\* <<name, extension>>
InvocationDir == <<>>
Prefixes(p) == { SubSeq(p, 1, k) : k \in 1..Len(p) }

WriteFile(fs, path, content) ==
  { f \in fs : f.path # path } \cup { [path |-> path, content |-> content] }

Msg(what, vocab, missing) == [what |-> what, vocab |-> vocab, missing |-> missing]
NoExc == [type |-> "none", msg |-> Msg("", "", {})]
ReportableError(msg) == [type |-> "ReportableError", msg |-> msg]
OtherError(type) == [type |-> type, msg |-> Msg("", "", {})]

Event(step, vocab, path) == [step |-> step, vocab |-> vocab, path |-> path]

\* a report of every mandatory key, present or not
MissingKeysAll(keys) == MANDATORY_KEYS

\* missing_keys = MANDATORY_KEYS-set(vocab_def)
missing_keys(keys) == MANDATORY_KEYS \ keys

\* vocab_def as _make_vocab_meta returns it; section is where its terms file
\* is found among the inputs
VocabDef(i) ==
  [name |-> sections[i].name, timestamp |-> Timestamp,
   terms_fname |-> <<sections[i].name, ".terms">>, section |-> i]

\* open(name) of an input file for reading: the relative name is looked up
\* in the current directory, and the inputs lie in the invocation directory
CanRead(readable) == cwd = InvocationDir /\ readable

\* a destination without the timestamp level
DestDirNoTimestamp(vocab_def) == << <<vocab_def.name>> >>

\* dest_dir = "{}/{}".format(vocab_def["name"], vocab_def["timestamp"])
DestDir(vocab_def) == << <<vocab_def.name>>, <<vocab_def.timestamp>> >>

\* a work_dir without try/finally: the directory is left as it is when the
\* body raises
WorkDirExitNoFinally(now, owd, raising) == IF raising THEN now ELSE owd

\* finally: os.chdir(owd)
work_dir_exit(now, owd, raising) == owd

\* a conversion that never checks the exit status
RapperCheckNever(returncode) == FALSE

\* if rapper.returncode!=0
rapper_check(returncode) == returncode # 0

\* except ReportableError, msg
is_reportable(e) == e.type = "ReportableError"

\* Term.as_html: the five cells of the table row
as_html(self) ==
  << self.predicate, self.label, self.description,
     IF Truthy(self.parent) THEN self.parent ELSE <<>>,
     IF Truthy(self.synonym) THEN self.synonym ELSE <<>> >>

TtlContent(vocab_def, ts) ==
  [kind |-> "ttl", vocab |-> vocab_def.name, timestamp |-> vocab_def.timestamp,
   body |-> [i \in 1..Len(ts) |-> as_ttl(ts[i])]]
HtmlContent(vocab_def, ts) ==
  [kind |-> "html", vocab |-> vocab_def.name, timestamp |-> vocab_def.timestamp,
   body |-> [i \in 1..Len(ts) |-> as_html(ts[i])]]
EmptyContent(vocab_def) ==
  [kind |-> "empty", vocab |-> vocab_def.name, timestamp |-> vocab_def.timestamp,
   body |-> <<>>]
RdfContent(vocab_def, ts) ==
  [kind |-> "rdf", vocab |-> vocab_def.name, timestamp |-> vocab_def.timestamp,
   body |-> [i \in 1..Len(ts) |-> as_ttl(ts[i])]]
HtaccessContent(vocab_def) ==
  [kind |-> "htaccess", vocab |-> vocab_def.name,
   timestamp |-> vocab_def.timestamp, body |-> <<>>]
MetaInfContent(vocab_def) ==
  [kind |-> "meta_inf", vocab |-> vocab_def.name,
   timestamp |-> vocab_def.timestamp, body |-> <<>>]

-----------------------------------------------------------------------------
(* Specification of the run *)

LitIdle == /\ lit_in = <<>> /\ lit_out = None /\ lit_pc = "idle"
ParseIdle ==
  /\ input = <<>> /\ parent_stack = <<>> /\ last_predicate = None
  /\ terms = <<>> /\ parse_pc = "idle" /\ parse_exc = "none"

RunIdle ==
  /\ install_root_official = TRUE /\ cfg_readable = TRUE /\ sections = <<>>
  /\ rapper_installed = TRUE
  /\ rpc = "idle" /\ meta = <<>> /\ mi = 0 /\ vi = 0 /\ run_terms = <<>>
  /\ cwd = InvocationDir /\ wd_stack = <<>> /\ dirs = {} /\ files = {}
  /\ stderr = <<>> /\ exit_status = -1 /\ exc = NoExc
  /\ failed_step = "none" /\ trace = <<>>

Init ==
  /\ LitIdle /\ ParseIdle
  /\ install_root_official \in BOOLEAN
  /\ cfg_readable \in BOOLEAN
  /\ rapper_installed \in BOOLEAN
  /\ sections \in Configurations
  /\ rpc = "main" /\ meta = <<>> /\ mi = 0 /\ vi = 0 /\ run_terms = <<>>
  /\ cwd = InvocationDir /\ wd_stack = <<>> /\ dirs = {} /\ files = {}
  /\ stderr = <<>> /\ exit_status = -1 /\ exc = NoExc
  /\ failed_step = "none" /\ trace = <<>>

\* raise e; step names what failed
Raise(e, step) == /\ exc' = e /\ rpc' = "raising" /\ failed_step' = step
Goto(pc) == /\ rpc' = pc /\ UNCHANGED <<exc, failed_step>>

\* main, up to the call of read_meta
MainStart ==
  /\ rpc = "main"
  /\ IF ~install_root_official
       THEN Raise(ReportableError(Msg("install_root", "", {})), "install_root")
       ELSE Goto("read_meta")
  /\ UNCHANGED <<meta, mi, vi, run_terms, cwd, wd_stack, dirs, files, stderr,
                 exit_status, trace, litVars, parseVars, inputVars>>

\* read_meta, up to its loop
ReadMetaOpen ==
  /\ rpc = "read_meta"
  /\ IF ~CanRead(cfg_readable)
       THEN /\ Raise(ReportableError(Msg("config_unreadable", "", {})), "config")
            /\ UNCHANGED <<meta, mi>>
       ELSE /\ Goto("make_vocab_meta")
            /\ meta' = <<>> /\ mi' = 1
  /\ UNCHANGED <<vi, run_terms, cwd, wd_stack, dirs, files, stderr,
                 exit_status, trace, litVars, parseVars, inputVars>>

\* one pass of read_meta's loop: meta.append(_make_vocab_meta(...))
MakeVocabMeta ==
  /\ rpc = "make_vocab_meta"
  /\ mi <= Len(sections)
  /\ LET sec == sections[mi]
         missing == missing_keys(sec.keys)
     IN IF missing # {}
          THEN /\ Raise(ReportableError(Msg("incomplete", sec.name, missing)),
                        "keys")
               /\ UNCHANGED <<meta, mi>>
        ELSE IF ~CanRead(sec.terms_readable)
          THEN /\ Raise(ReportableError(Msg("terms_unreadable", sec.name, {})),
                        "terms_unreadable")
               /\ UNCHANGED <<meta, mi>>
        ELSE /\ Goto("make_vocab_meta")
             /\ meta' = Append(meta, VocabDef(mi))
             /\ mi' = mi + 1
  /\ UNCHANGED <<vi, run_terms, cwd, wd_stack, dirs, files, stderr,
                 exit_status, trace, litVars, parseVars, inputVars>>

\* read_meta returns; main enters its loop
ReadMetaReturn ==
  /\ rpc = "make_vocab_meta"
  /\ mi > Len(sections)
  /\ Goto("build")
  /\ vi' = 1
  /\ UNCHANGED <<meta, mi, run_terms, cwd, wd_stack, dirs, files, stderr,
                 exit_status, trace, litVars, parseVars, inputVars>>

\* build_vocab, up to dest_dir: parse_terms inside try/except/raise
BuildVocabParse ==
  /\ rpc = "build"
  /\ vi <= Len(meta)
  /\ LET vocab_def == meta[vi]
         sec == sections[vocab_def.section]
         note == [kind |-> "raised_within",
                  msg |-> Msg("terms_fname", vocab_def.name, {})]
         res == parse_terms(TermsFileContent(sec.terms_file))
     IN IF ~CanRead(sec.terms_readable)
          THEN /\ stderr' = Append(stderr, note)
               /\ Raise(OtherError("IOError"), "parse")
               /\ UNCHANGED <<run_terms, trace>>
        ELSE IF res.exc # "none"
          THEN /\ stderr' = Append(stderr, note)
               /\ Raise(OtherError(res.exc), "parse")
               /\ UNCHANGED <<run_terms, trace>>
        ELSE /\ Goto("enter_dest")
             /\ run_terms' = res.terms
             /\ trace' = Append(trace,
                           Event("parse", vocab_def.name,
                                 cwd \o <<vocab_def.terms_fname>>))
             /\ UNCHANGED stderr
  /\ UNCHANGED <<meta, mi, vi, cwd, wd_stack, dirs, files,
                 exit_status, litVars, parseVars, inputVars>>

\* with work_dir(dir_name): everything before the yield
WorkDirEnter(dir_name, body_pc, after_pc) ==
  LET target == cwd \o dir_name
  IN \E makedirs_ok \in BOOLEAN :
       IF target \notin dirs /\ ~makedirs_ok
         THEN /\ Raise(OtherError("OSError"), "makedirs")
              /\ UNCHANGED <<cwd, wd_stack, dirs>>
         ELSE /\ Goto(body_pc)
              /\ dirs' = dirs \cup Prefixes(target)
              /\ wd_stack' = Append(wd_stack, [owd |-> cwd, after |-> after_pc])
              /\ cwd' = target

EnterDestDir ==
  /\ rpc = "enter_dest"
  /\ WorkDirEnter(DestDir(meta[vi]), "write_ontology", "enter_top")
  /\ UNCHANGED <<meta, mi, vi, run_terms, files, stderr,
                 exit_status, trace, litVars, parseVars, inputVars>>

EnterTopDir ==
  /\ rpc = "enter_top"
  /\ WorkDirEnter(<< <<meta[vi].name>> >>, "write_htaccess", "vocab_built")
  /\ UNCHANGED <<meta, mi, vi, run_terms, files, stderr,
                 exit_status, trace, litVars, parseVars, inputVars>>

\* with open(name, "w") as f: f.write(content), which may fail
WriteStep(step, name, content, next_pc) ==
  \E open_ok \in BOOLEAN :
    IF open_ok
      THEN /\ Goto(next_pc)
           /\ files' = WriteFile(files, cwd \o <<name>>, content)
           /\ trace' = Append(trace, Event(step, meta[vi].name, cwd \o <<name>>))
      ELSE /\ Raise(OtherError("IOError"), step)
           /\ UNCHANGED <<files, trace>>

\* write_ontology, up to the call of add_rdf_file
WriteOntologyTtl ==
  /\ rpc = "write_ontology"
  /\ WriteStep("write_ttl", <<meta[vi].name, ".ttl">>,
               TtlContent(meta[vi], run_terms), "add_rdf_file")
  /\ UNCHANGED <<meta, mi, vi, run_terms, cwd, wd_stack, dirs, stderr,
                 exit_status, litVars, parseVars, inputVars>>

\* add_rdf_file: with open(turtle_name[:-3]+"rdf", "w") as f
AddRdfFileOpen ==
  /\ rpc = "add_rdf_file"
  /\ \E open_ok \in BOOLEAN :
       IF open_ok
         THEN /\ Goto("rapper")
              /\ files' = WriteFile(files, cwd \o << <<meta[vi].name, ".rdf">> >>,
                                    EmptyContent(meta[vi]))
         ELSE /\ Raise(OtherError("IOError"), "open_rdf")
              /\ UNCHANGED files
  /\ UNCHANGED <<meta, mi, vi, run_terms, cwd, wd_stack, dirs, stderr,
                 exit_status, trace, litVars, parseVars, inputVars>>

\* add_rdf_file: Popen, communicate and the check of the exit status
AddRdfFileRapper ==
  /\ rpc = "rapper"
  /\ LET path == cwd \o << <<meta[vi].name, ".rdf">> >>
     IN IF ~rapper_installed
          THEN /\ Raise(OtherError("OSError"), "rapper_absent")
               /\ UNCHANGED <<files, stderr, trace>>
          ELSE \E returncode \in {0, 1} :
                 /\ files' = IF returncode = 0
                               THEN WriteFile(files, path,
                                              RdfContent(meta[vi], run_terms))
                               ELSE files
                 /\ failed_step' = IF returncode = 0 THEN failed_step
                                   ELSE "rapper_nonzero"
                 /\ IF rapper_check(returncode)
                      THEN /\ stderr' = stderr \o
                                << [kind |-> "rapper_output",
                                    msg |-> Msg("rapper", meta[vi].name, {})] >>
                           /\ exc' = ReportableError(
                                       Msg("conversion_failed", "", {}))
                           /\ rpc' = "raising"
                           /\ UNCHANGED trace
                      ELSE /\ rpc' = "write_html"
                           /\ trace' = Append(trace,
                                         Event("convert_rdf", meta[vi].name, path))
                           /\ UNCHANGED <<stderr, exc>>
  /\ UNCHANGED <<meta, mi, vi, run_terms, cwd, wd_stack, dirs,
                 exit_status, litVars, parseVars, inputVars>>

WriteHtml ==
  /\ rpc = "write_html"
  /\ WriteStep("write_html", <<meta[vi].name, ".html">>,
               HtmlContent(meta[vi], run_terms), "leave")
  /\ UNCHANGED <<meta, mi, vi, run_terms, cwd, wd_stack, dirs, stderr,
                 exit_status, litVars, parseVars, inputVars>>

WriteHtaccess ==
  /\ rpc = "write_htaccess"
  /\ WriteStep("write_htaccess", <<".htaccess">>,
               HtaccessContent(meta[vi]), "write_meta_inf")
  /\ UNCHANGED <<meta, mi, vi, run_terms, cwd, wd_stack, dirs, stderr,
                 exit_status, litVars, parseVars, inputVars>>

WriteMetaInf ==
  /\ rpc = "write_meta_inf"
  /\ WriteStep("write_meta_inf", <<"META.INF">>,
               MetaInfContent(meta[vi]), "leave")
  /\ UNCHANGED <<meta, mi, vi, run_terms, cwd, wd_stack, dirs, stderr,
                 exit_status, litVars, parseVars, inputVars>>

\* work_dir after the yield: the body ended or raised
LeaveWorkDir ==
  /\ rpc \in {"leave", "raising"}
  /\ wd_stack # <<>>
  /\ LET frame == wd_stack[Len(wd_stack)]
     IN /\ cwd' = work_dir_exit(cwd, frame.owd, rpc = "raising")
        /\ wd_stack' = SubSeq(wd_stack, 1, Len(wd_stack) - 1)
        /\ rpc' = IF rpc = "raising" THEN "raising" ELSE frame.after
  /\ UNCHANGED <<meta, mi, vi, run_terms, dirs, files, stderr, exit_status,
                 exc, failed_step, trace, litVars, parseVars, inputVars>>

\* build_vocab returns; main's loop goes on to the next vocab_def
BuildVocabReturn ==
  /\ rpc = "vocab_built"
  /\ Goto("build")
  /\ vi' = vi + 1
  /\ UNCHANGED <<meta, mi, run_terms, cwd, wd_stack, dirs, files, stderr,
                 exit_status, trace, litVars, parseVars, inputVars>>

\* main's loop is exhausted: the script ends
MainDone ==
  /\ rpc = "build"
  /\ vi > Len(meta)
  /\ Goto("exited")
  /\ exit_status' = 0
  /\ UNCHANGED <<meta, mi, vi, run_terms, cwd, wd_stack, dirs, files, stderr,
                 trace, litVars, parseVars, inputVars>>

\* an exception leaves main(): the except clause of the script, or the
\* interpreter's traceback
MainExcept ==
  /\ rpc = "raising"
  /\ wd_stack = <<>>
  /\ rpc' = "exited"
  /\ stderr' = Append(stderr,
                 IF is_reportable(exc)
                   THEN [kind |-> "fatal", msg |-> exc.msg]
                   ELSE [kind |-> "traceback", msg |-> Msg(exc.type, "", {})])
  /\ exit_status' = 1
  /\ UNCHANGED <<meta, mi, vi, run_terms, cwd, wd_stack, dirs, files,
                 exc, failed_step, trace, litVars, parseVars, inputVars>>

Next ==
  \/ MainStart \/ ReadMetaOpen \/ MakeVocabMeta \/ ReadMetaReturn
  \/ BuildVocabParse \/ EnterDestDir \/ WriteOntologyTtl \/ AddRdfFileOpen
  \/ AddRdfFileRapper \/ WriteHtml \/ EnterTopDir \/ WriteHtaccess
  \/ WriteMetaInf \/ LeaveWorkDir \/ BuildVocabReturn \/ MainDone
  \/ MainExcept

Spec == Init /\ [][Next]_vars

-----------------------------------------------------------------------------
(* Specification of make_ttl_literal on one string *)

InitLit ==
  /\ lit_in \in Strings /\ lit_out = None /\ lit_pc = "call"
  /\ ParseIdle /\ RunIdle

CallMakeTtlLiteral ==
  /\ lit_pc = "call"
  /\ lit_out' = make_ttl_literal(lit_in)
  /\ lit_pc' = "returned"
  /\ UNCHANGED <<lit_in, parseVars, inputVars, runVars>>

NextLit == CallMakeTtlLiteral

SpecLit == InitLit /\ [][NextLit]_vars

-----------------------------------------------------------------------------
(* Specification of parse_terms, one record per step *)

InitParse ==
  /\ LitIdle /\ RunIdle
  /\ input = <<>> /\ parent_stack = <<>> /\ last_predicate = None
  /\ terms = <<>> /\ parse_pc = "loop" /\ parse_exc = "none"

\* for rec in csv.reader(f, delimiter=";"): one iteration
ReadRecord ==
  /\ parse_pc = "loop"
  /\ Len(input) < MaxRecs
  /\ \E raw \in Records :
       \E st \in { LoopBody([exc |-> "none", parent_stack |-> parent_stack,
                             last_predicate |-> last_predicate,
                             terms |-> terms], raw) } :
          /\ input' = Append(input, raw)
          /\ parent_stack' = st.parent_stack
          /\ last_predicate' = st.last_predicate
          /\ terms' = st.terms
          /\ parse_exc' = st.exc
          /\ parse_pc' = IF st.exc = "none" THEN "loop" ELSE "raised"
  /\ UNCHANGED <<litVars, inputVars, runVars>>

\* the reader is exhausted: return terms
ReturnTerms ==
  /\ parse_pc = "loop"
  /\ parse_pc' = "returned"
  /\ UNCHANGED <<input, parent_stack, last_predicate, terms, parse_exc,
                 litVars, inputVars, runVars>>

NextParse == ReadRecord \/ ReturnTerms

SpecParse == InitParse /\ [][NextParse]_vars

-----------------------------------------------------------------------------
(* Properties of make_ttl_literal *)

\* the body of a short literal with the backslash before each quote removed
RECURSIVE Unescape(_)
Unescape(b) ==
  IF b = <<>> THEN <<>>
  ELSE IF Len(b) >= 2 /\ b[1] = BACKSLASH /\ b[2] = DQUOTE
    THEN <<DQUOTE>> \o Unescape(SubSeq(b, 3, Len(b)))
    ELSE <<b[1]>> \o Unescape(Tail(b))

IsLongForm(s, out) ==
  /\ Len(out) >= 6
  /\ SubSeq(out, 1, 3) = <<DQUOTE, DQUOTE, DQUOTE>>
  /\ SubSeq(out, Len(out) - 2, Len(out)) = <<DQUOTE, DQUOTE, DQUOTE>>
  /\ SubSeq(out, 4, Len(out) - 3) = encode_utf8(s)

IsShortForm(s, out) ==
  /\ Len(out) >= 2
  /\ out[1] = DQUOTE /\ out[Len(out)] = DQUOTE
  /\ LET body == SubSeq(out, 2, Len(out) - 1)
     IN /\ \A i \in 1..Len(body) :
             body[i] = DQUOTE => i > 1 /\ body[i - 1] = BACKSLASH
        /\ Unescape(body) = encode_utf8(s)

RenderedAsLiteral(s, out) ==
  IF Contains(s, NEWLINE) THEN IsLongForm(s, out) ELSE IsShortForm(s, out)

-----------------------------------------------------------------------------
(* Properties of parse_terms *)

\* the level the i-th record declares (i at most Len(terms))
Level(i) == int(input[i][2])

\* the raw predicate with "#" prefixed unless it is URI-shaped
HashNormalised(p) == IF is_URI(p) THEN p ELSE <<"#">> \o p

\* the records read so far start at level 1 and never go deeper by more
\* than one level at a time
WellNested ==
  /\ Len(terms) >= 1 => Level(1) = 1
  /\ \A i \in 2..Len(terms) : Level(i) <= Level(i - 1) + 1

NearestShallower(i) ==
  CHOOSE j \in 1..(i - 1) :
    /\ Level(j) = Level(i) - 1
    /\ \A k \in (j + 1)..(i - 1) : Level(k) # Level(i) - 1

\* C1: in a well-nested file a level-1 term has no parent and a level-N
\* term has as parent the '#'-normalised predicate of the most recent
\* preceding record of level N-1.
C1_ParentIsNearestShallower ==
  WellNested =>
    \A i \in 1..Len(terms) :
      terms[i].parent =
        IF Level(i) = 1 THEN None
        ELSE HashNormalised(input[NearestShallower(i)][1])

C1_Witness ==
  /\ parse_pc = "returned" /\ WellNested
  /\ Len(terms) = 3
  /\ Level(2) = 2 /\ Level(3) = 2
  /\ input[1][1] # input[2][1]
  /\ terms[3].parent = HashNormalised(input[1][1])

\* C2 as stated: the predicate stored in every Term, and the subject as_ttl
\* writes for it, is the normalised predicate of its record.
C2_EmittedPredicateIsNormalised ==
  \A i \in 1..Len(terms) :
    /\ terms[i].predicate = HashNormalised(input[i][1])
    /\ as_ttl(terms[i])[1] =
         <<"<">> \o HashNormalised(input[i][1]) \o <<">", " a rdf:Property">>

\* the synonym the claim expects for a raw record
GivenSynonym(raw) == Len(raw) >= 5 /\ raw[5] # <<>>
ExpectedSynonym(raw) ==
  IF GivenSynonym(raw) THEN HashNormalised(raw[5]) ELSE None

\* C9 as stated: every record with a positive integer level yields a term,
\* with synonym None when no synonym is given (fewer than five columns or an
\* empty fifth column) and with the '#'-normalised synonym otherwise.
C9_SynonymOptional ==
  \A i \in 1..Len(input) :
    (IsIntLiteral(input[i][2]) /\ int(input[i][2]) >= 1) =>
      /\ i <= Len(terms)
      /\ terms[i].synonym = ExpectedSynonym(input[i])

\* pairwise distinct normalised predicates among the first k records
DistinctNames(k) ==
  \A i, j \in 1..k :
    i # j => HashNormalised(input[i][1]) # HashNormalised(input[j][1])

Siblings(i) ==
  /\ terms[i + 1].parent = terms[i].parent
  /\ DistinctNames(i + 1) =>
       terms[i + 1].parent # HashNormalised(input[i][1])

\* C10 as stated: for every sequence of positive levels, two consecutive
\* records of the same level get the same parent, and the second is no child
\* of the first.
C10_SameLevelSiblings ==
  \A i \in 1..(Len(terms) - 1) : Level(i) = Level(i + 1) => Siblings(i)

\* no record is more than one level deeper than the record before it, and
\* the first record is at level 1 or 2
NoDeepJump ==
  /\ Len(terms) >= 1 => Level(1) <= 2
  /\ \A i \in 2..Len(terms) : Level(i) <= Level(i - 1) + 1

\* C10 amended: the same, for sequences in which the first record is at
\* level 1 or 2 and no record is more than one level deeper than the record
\* before it.
C10_SameLevelSiblingsNoJump ==
  NoDeepJump =>
    \A i \in 1..(Len(terms) - 1) : Level(i) = Level(i + 1) => Siblings(i)

C10_Witness ==
  /\ parse_pc = "returned" /\ NoDeepJump
  /\ Len(terms) = 3
  /\ Level(1) = 1 /\ Level(2) = 2 /\ Level(3) = 2
  /\ DistinctNames(2)
  /\ terms[3].parent = terms[2].parent
  /\ terms[3].parent = HashNormalised(input[1][1])

-----------------------------------------------------------------------------
(* Properties of the run *)

LacksKeys(i) == MANDATORY_KEYS \ sections[i].keys # {}
Invalid(i) == LacksKeys(i) \/ ~sections[i].terms_readable
ConfigurationRead == install_root_official /\ cfg_readable

NoOutputFor(name) ==
  /\ \A d \in dirs : d[1] # <<name>>
  /\ \A f \in files : f.path[1] # <<name>>

FatalCount == Cardinality({ k \in 1..Len(stderr) : stderr[k].kind = "fatal" })
TracebackCount ==
  Cardinality({ k \in 1..Len(stderr) : stderr[k].kind = "traceback" })

IncompleteError(i) ==
  ReportableError(Msg("incomplete", sections[i].name,
                      MANDATORY_KEYS \ sections[i].keys))

\* C3 as stated: for every section that lacks mandatory keys, the run (once
\* the configuration is read) ends with a ReportableError that names that
\* section and exactly its missing keys, and nothing is ever created for
\* that vocabulary.
C3_EveryIncompleteSectionReported ==
  ConfigurationRead =>
    \A i \in 1..Len(sections) :
      LacksKeys(i) =>
        /\ NoOutputFor(sections[i].name)
        /\ rpc = "exited" =>
             /\ exc = IncompleteError(i)
             /\ stderr = << [kind |-> "fatal", msg |-> exc.msg] >>
             /\ exit_status = 1

FirstInvalid ==
  CHOOSE i \in 1..Len(sections) :
    Invalid(i) /\ \A j \in 1..(i - 1) : ~Invalid(j)

\* C3 amended: if some section lacks mandatory keys, nothing is ever created
\* for any vocabulary and the run ends with a ReportableError, reported as
\* the one fatal message, and status 1; when the configuration is read
\* (official install root, readable file) the error is that of the first
\* section, in file order, that lacks keys or whose terms file is
\* unreadable: if that section lacks keys the message names it and exactly
\* its missing keys.
C3_FirstInvalidSectionReported ==
  (\E i \in 1..Len(sections) : LacksKeys(i)) =>
    /\ dirs = {} /\ files = {}
    /\ rpc = "exited" =>
         /\ exc.type = "ReportableError"
         /\ stderr = << [kind |-> "fatal", msg |-> exc.msg] >>
         /\ exit_status = 1
         /\ ConfigurationRead =>
              exc = IF LacksKeys(FirstInvalid)
                      THEN IncompleteError(FirstInvalid)
                      ELSE ReportableError(
                             Msg("terms_unreadable",
                                 sections[FirstInvalid].name, {}))

C3_Witness ==
  /\ rpc = "exited" /\ ConfigurationRead
  /\ Len(sections) = 2
  /\ ~Invalid(1)
  /\ sections[2].keys = MANDATORY_KEYS \ {"timestamp", "title"}
  /\ exc.msg = Msg("incomplete", sections[2].name, {"timestamp", "title"})
  /\ FatalCount = 1

\* C4: whenever no work_dir block is open (none was entered yet, or each one
\* entered has been left, by its end or by an exception), the current
\* directory is the invocation directory; so it is at the start of every
\* build_vocab call and when the run ends.
C4_CwdRestored ==
  /\ wd_stack = <<>> => cwd = InvocationDir
  /\ \A k \in 1..Len(wd_stack) : wd_stack[k].owd = InvocationDir

C4_Witness ==
  /\ rpc = "raising" /\ wd_stack = <<>>
  /\ failed_step = "rapper_nonzero"
  /\ dirs # {}
  /\ cwd = InvocationDir

\* the steps of the i-th vocabulary, with the paths from the invocation
\* directory
ExpectedSteps(i) ==
  LET n == sections[i].name
      top == << <<n>> >>
      dest == << <<n>>, <<Timestamp>> >>
  IN << Event("parse", n, << <<n, ".terms">> >>),
        Event("write_ttl", n, dest \o << <<n, ".ttl">> >>),
        Event("convert_rdf", n, dest \o << <<n, ".rdf">> >>),
        Event("write_html", n, dest \o << <<n, ".html">> >>),
        Event("write_htaccess", n, top \o << <<".htaccess">> >>),
        Event("write_meta_inf", n, top \o << <<"META.INF">> >>) >>

RECURSIVE ExpectedTrace(_)
ExpectedTrace(k) ==
  IF k = 0 THEN <<>> ELSE ExpectedTrace(k - 1) \o ExpectedSteps(k)

IsPrefix(s, t) == Len(s) <= Len(t) /\ SubSeq(t, 1, Len(s)) = s

KindWritten(step) ==
  CASE step = "write_ttl" -> "ttl"
    [] step = "convert_rdf" -> "rdf"
    [] step = "write_html" -> "html"
    [] step = "write_htaccess" -> "htaccess"
    [] step = "write_meta_inf" -> "meta_inf"

\* C5: the steps are done vocabulary after vocabulary in file order, each in
\* the order parse, .ttl, .rdf, .html (in name/timestamp/), .htaccess,
\* META.INF (in name/); when a run in which nothing failed ends, every step
\* of every section has been done and the five files of every vocabulary
\* exist at these paths.
C5_StepsInOrder ==
  /\ IsPrefix(trace, ExpectedTrace(Len(sections)))
  /\ (rpc = "exited" /\ failed_step = "none") =>
       /\ trace = ExpectedTrace(Len(sections))
       /\ \A k \in 1..Len(trace) :
            trace[k].step # "parse" =>
              \E f \in files :
                /\ f.path = trace[k].path
                /\ f.content.kind = KindWritten(trace[k].step)
                /\ f.content.vocab = trace[k].vocab

C5_Witness ==
  /\ rpc = "exited" /\ failed_step = "none"
  /\ Len(sections) = 2
  /\ Len(trace) = 12
  /\ Cardinality(files) = 10

\* C6: once a step has failed the run is only unwinding or over, nothing
\* is written, created, removed or done again from then on, and the run
\* ends with status 1.
C6_FailureAbortsRun ==
  /\ [](failed_step # "none" => rpc \in {"raising", "exited"})
  /\ [][failed_step # "none" => UNCHANGED <<files, dirs, trace>>]_vars
  /\ []((failed_step # "none" /\ rpc = "exited") => exit_status = 1)

C6_Witness ==
  /\ rpc = "exited" /\ failed_step = "rapper_nonzero"
  /\ vi = 2
  /\ \E f \in files : f.path = << <<"va">>, <<"META.INF">> >>
  /\ \E f \in files :
       /\ f.path = << <<"vb">>, <<Timestamp>>, <<"vb", ".rdf">> >>
       /\ f.content.kind = "empty"

ReportableFailures ==
  {"keys", "config", "terms_unreadable", "rapper_absent", "rapper_nonzero"}

\* C7 as stated: a run that ends after a missing key, an unreadable
\* configuration or terms file, an absent converter or a converter failure
\* has written exactly one "*** Fatal:" message, no traceback, and exits
\* with status 1; a traceback comes only from other errors.
C7_ReportableFailuresAreFatal ==
  rpc = "exited" =>
    /\ failed_step \in ReportableFailures =>
         /\ FatalCount = 1 /\ TracebackCount = 0
         /\ exit_status = 1
    /\ TracebackCount > 0 => failed_step \notin ReportableFailures

====
